---------------------------- MODULE Spec2Model ----------------------------
(***************************************************************************)
(* Air-Pollution-Dashboard: the App component (src/unnamed/part_000) and   *)
(* the AirQualityCard component (src/src/components/AirQualityCard.jsx).   *)
(*                                                                         *)
(* Concentrations are fixed-point numbers in tenths of a microgram per    *)
(* cubic metre (12.1 is 121), the resolution of the breakpoint tables and  *)
(* of the air-quality service.  On that grid the exact arithmetic below    *)
(* agrees with the IEEE-754 double arithmetic of the code at every point.  *)
(* Coordinates are fixed-point numbers in 1/10000 of a degree.             *)
(***************************************************************************)
EXTENDS Integers, Sequences, FiniteSets, TLC

VARIABLES
    city,         \* useState("Islamabad"): the search box's text
    coords,       \* useState({lat, lon})
    aqData,       \* useState(null): merged latest pollutant + NASA values
    aqi,          \* useState(null)
    pmTrend,      \* useState({pm2_5: [], pm10: [], labels: []})
    predictions,  \* useState([])
    loading,      \* useState(true)
    geo,          \* the mount effect and its geolocation request
    inflight,     \* the async calls (handleSearch / fetchAirQuality) awaiting a response
    started,      \* history: the kind of every refresh cycle triggered so far, in order
    shown,        \* history: the cycle whose fetchAirQuality last reached generatePredictions
    coordsFrom,   \* history: the cycle that last called setCoords (0: the initial value)
    lastFailure,  \* the last alert() text and the kind of error last logged or caught
    pureCall      \* a call of one of the pure functions: its arguments and its result

vars == <<city, coords, aqData, aqi, pmTrend, predictions, loading, geo,
          inflight, started, shown, coordsFrom, lastFailure, pureCall>>

appVars == <<city, coords, aqData, aqi, pmTrend, predictions, loading, geo,
             inflight, started, shown, coordsFrom, lastFailure>>

(***************************************************************************)
(* JavaScript values: null, undefined, NaN and numbers are kept apart, as  *)
(* the code's tests (=== null, isNaN, !aqi, <=) tell them apart.           *)
(***************************************************************************)
Null == [t |-> "null"]
Undef == [t |-> "undefined"]
NaN == [t |-> "NaN"]
Num(n) == [t |-> "num", v |-> n]

IsNum(x) == x.t = "num"

\* !x for the values above: null, undefined, NaN and 0 are falsy.
Falsy(x) == x \in {Null, Undef, NaN} \/ (IsNum(x) /\ x.v = 0)

\* ToNumber(x): null is 0, undefined is NaN.
ToNumber(x) == IF x = Null THEN Num(0) ELSE IF x = Undef THEN NaN ELSE x

\* x <= n and x >= n for a number n: false when ToNumber(x) is NaN.
JsLe(x, n) == IsNum(ToNumber(x)) /\ ToNumber(x).v <= n
JsGe(x, n) == IsNum(ToNumber(x)) /\ ToNumber(x).v >= n

\* isNaN(x): ToNumber(x) is NaN.
isNaN(x) == ~IsNum(ToNumber(x))

\* x + n for a number n.
JsAdd(x, n) == IF IsNum(ToNumber(x)) THEN Num(ToNumber(x).v + n) ELSE NaN

\* Math.min(x, n) and Math.max(x, y): NaN if an argument is NaN.
MathMin(x, n) == IF IsNum(x) THEN Num(IF x.v <= n THEN x.v ELSE n) ELSE NaN
MathMax(x, y) ==
    IF IsNum(x) /\ IsNum(y) THEN Num(IF x.v >= y.v THEN x.v ELSE y.v) ELSE NaN

\* x || 0
OrZero(x) == IF Falsy(x) THEN Num(0) ELSE x

(***************************************************************************)
(* The breakpoint tables, concentrations in tenths.                        *)
(***************************************************************************)
Bp(cLow, cHigh, iLow, iHigh) ==
    [cLow |-> cLow, cHigh |-> cHigh, iLow |-> iLow, iHigh |-> iHigh]

pm25Breakpoints ==
    << Bp(0, 120, 0, 50),
       Bp(121, 354, 51, 100),
       Bp(355, 554, 101, 150),
       Bp(555, 1504, 151, 200),
       Bp(1505, 2504, 201, 300),
       Bp(2505, 3504, 301, 400),
       Bp(3505, 5000, 401, 500) >>

pm10Breakpoints ==
    << Bp(0, 540, 0, 50),
       Bp(550, 1540, 51, 100),
       Bp(1550, 2540, 101, 150),
       Bp(2550, 3540, 151, 200),
       Bp(3550, 4240, 201, 300),
       Bp(4250, 5040, 301, 400),
       Bp(5050, 6040, 401, 500) >>

\* Interpolate with Math.floor in place of Math.round.
Interpolate_floor(c, bp) ==
    bp.iLow + ((bp.iHigh - bp.iLow) * (c - bp.cLow)) \div (bp.cHigh - bp.cLow)

\* Math.round(((iHigh - iLow) / (cHigh - cLow)) * (c - cLow) + iLow), for
\* cLow <= c: Math.round(x) is floor(x + 1/2).
Interpolate(c, bp) ==
    bp.iLow + (2 * (bp.iHigh - bp.iLow) * (c - bp.cLow) + (bp.cHigh - bp.cLow))
                  \div (2 * (bp.cHigh - bp.cLow))

\* calcAQIFrom clamping a concentration above the table to the last iHigh.
RECURSIVE calcAQIFrom_clamped(_, _, _)
calcAQIFrom_clamped(c, breakpoints, k) ==
    IF k > Len(breakpoints)
    THEN IF JsGe(c, breakpoints[Len(breakpoints)].cHigh)
         THEN Num(breakpoints[Len(breakpoints)].iHigh)
         ELSE Null
    ELSE IF JsGe(c, breakpoints[k].cLow) /\ JsLe(c, breakpoints[k].cHigh)
         THEN Num(breakpoints[k].iLow
                  + (2 * (breakpoints[k].iHigh - breakpoints[k].iLow)
                       * (ToNumber(c).v - breakpoints[k].cLow)
                     + (breakpoints[k].cHigh - breakpoints[k].cLow))
                        \div (2 * (breakpoints[k].cHigh - breakpoints[k].cLow)))
         ELSE calcAQIFrom_clamped(c, breakpoints, k + 1)

\* The for loop of calcAQI from segment k on: the first segment that holds c.
RECURSIVE calcAQIFrom(_, _, _)
calcAQIFrom(c, breakpoints, k) ==
    IF k > Len(breakpoints) THEN Null
    ELSE IF JsGe(c, breakpoints[k].cLow) /\ JsLe(c, breakpoints[k].cHigh)
         THEN Num(Interpolate(ToNumber(c).v, breakpoints[k]))
         ELSE calcAQIFrom(c, breakpoints, k + 1)

calcAQI(c, breakpoints) ==
    IF c = Null \/ c = Undef THEN Null ELSE calcAQIFrom(c, breakpoints, 1)

\* getAQIFromPM taking the PM10 sub-index only when there is no PM2.5 one.
getAQIFromPM_first(pm25, pm10) ==
    IF calcAQI(pm25, pm25Breakpoints) # Null
    THEN OrZero(calcAQI(pm25, pm25Breakpoints))
    ELSE OrZero(calcAQI(pm10, pm10Breakpoints))

getAQIFromPM(pm25, pm10) ==
    MathMax(OrZero(calcAQI(pm25, pm25Breakpoints)),
            OrZero(calcAQI(pm10, pm10Breakpoints)))

(***************************************************************************)
(* The classifiers.                                                        *)
(***************************************************************************)
\* getQuality with exclusive upper boundaries.
getQuality_exclusive(a) ==
    IF ~JsGe(a, 50) THEN [label |-> "Good", color |-> "#00e400"]
    ELSE IF ~JsGe(a, 100) THEN [label |-> "Moderate", color |-> "#ffff00"]
    ELSE IF ~JsGe(a, 150) THEN [label |-> "Unhealthy (Sensitive)", color |-> "#ff7e00"]
    ELSE IF ~JsGe(a, 200) THEN [label |-> "Unhealthy", color |-> "#ff0000"]
    ELSE IF ~JsGe(a, 300) THEN [label |-> "Very Unhealthy", color |-> "#8f3f97"]
    ELSE [label |-> "Hazardous", color |-> "#7e0023"]

\* AirQualityCard.getQuality
getQuality(a) ==
    IF JsLe(a, 50) THEN [label |-> "Good", color |-> "#00e400"]
    ELSE IF JsLe(a, 100) THEN [label |-> "Moderate", color |-> "#ffff00"]
    ELSE IF JsLe(a, 150) THEN [label |-> "Unhealthy (Sensitive)", color |-> "#ff7e00"]
    ELSE IF JsLe(a, 200) THEN [label |-> "Unhealthy", color |-> "#ff0000"]
    ELSE IF JsLe(a, 300) THEN [label |-> "Very Unhealthy", color |-> "#8f3f97"]
    ELSE [label |-> "Hazardous", color |-> "#7e0023"]

getAQIColor(a) ==
    IF Falsy(a) THEN "bg-gradient-to-r from-blue-300 to-blue-100/30"
    ELSE IF JsLe(a, 50) THEN "bg-gradient-to-r from-blue-300 to-blue-100/30"
    ELSE IF JsLe(a, 100) THEN "bg-gradient-to-r from-yellow-500 to-yellow-300/40"
    ELSE IF JsLe(a, 150) THEN "bg-gradient-to-r from-orange-700 to-orange-500/50"
    ELSE IF JsLe(a, 200) THEN "bg-gradient-to-r from-red-800 to-red-600/60"
    ELSE IF JsLe(a, 300) THEN "bg-gradient-to-r from-purple-900 to-purple-700/60"
    ELSE "bg-gradient-to-r from-black to-gray-800/70"

\* The Health Advice block of App's render: the sentence shown, or NoAdvice
\* when the block is not rendered ({!loading && aqi && ...}).
NoAdvice == "(not rendered)"

\* HealthAdvice with a sixth sentence above 300.
HealthAdvice_six(isLoading, a) ==
    IF isLoading \/ Falsy(a) THEN NoAdvice
    ELSE IF JsLe(a, 50) THEN "Air quality is good. Enjoy outdoor activities!"
    ELSE IF JsLe(a, 100)
         THEN "Moderate air quality. Sensitive people should limit outdoor activity."
    ELSE IF JsLe(a, 150) THEN "Unhealthy for sensitive groups. Avoid outdoor exercise."
    ELSE IF JsLe(a, 200) THEN "Unhealthy air! Stay indoors with filtered air."
    ELSE IF JsLe(a, 300)
         THEN "Very unhealthy! Avoid going outside and use air purifiers."
    ELSE "Hazardous! Stay indoors."

HealthAdvice(isLoading, a) ==
    IF isLoading \/ Falsy(a) THEN NoAdvice
    ELSE IF JsLe(a, 50) THEN "Air quality is good. Enjoy outdoor activities!"
    ELSE IF JsLe(a, 100)
         THEN "Moderate air quality. Sensitive people should limit outdoor activity."
    ELSE IF JsLe(a, 150) THEN "Unhealthy for sensitive groups. Avoid outdoor exercise."
    ELSE IF JsLe(a, 200) THEN "Unhealthy air! Stay indoors with filtered air."
    ELSE "Very unhealthy! Avoid going outside and use air purifiers."

(***************************************************************************)
(* Template literals `Day ${d}` and `Hour ${i + 1}`: the decimal numeral   *)
(* of a small positive integer appended to the prefix.                     *)
(***************************************************************************)
Digits == <<"0", "1", "2", "3", "4", "5", "6", "7", "8", "9">>

RECURSIVE Numeral(_)
Numeral(n) == IF n < 10 THEN Digits[n + 1] ELSE Numeral(n \div 10) \o Digits[(n % 10) + 1]

\* generatePredictions without the cap at 500.
generatePredictions_uncapped(currentAQI) ==
    [i \in 1..3 |->
        [day |-> "Day " \o Numeral(i), aqi |-> JsAdd(currentAQI, (i - 1) * 10)]]

\* generatePredictions: the array handed to setPredictions.
generatePredictions(currentAQI) ==
    [i \in 1..3 |->
        [day |-> "Day " \o Numeral(i),
         aqi |-> MathMin(JsAdd(currentAQI, (i - 1) * 10), 500)]]


(***************************************************************************)
(* The data of a refresh.  An array is Arr(items); a key an object lacks   *)
(* reads as Undef.  Of the hourly series of the air-quality response only  *)
(* pm2_5 and pm10 are kept: the loop over the other series treats each the *)
(* same way and no other series is read again.                             *)
(***************************************************************************)
Arr(items) == [t |-> "array", items |-> items]

IsArray(x) == x.t = "array"

Hourly(h25, h10) == [t |-> "object", pm2_5 |-> h25, pm10 |-> h10]

\* values.filter((v) => v !== null && !isNaN(v))
FilterValid(items) == SelectSeq(items, LAMBDA v : v # Null /\ ~isNaN(v))

TrendWindow == 7

\* slice(0, n) in place of slice(-n).
SliceLast_first(items, n) ==
    IF Len(items) <= n THEN items ELSE SubSeq(items, 1, n)

\* items.slice(-n)
SliceLast(items, n) ==
    IF Len(items) <= n THEN items ELSE SubSeq(items, Len(items) - n + 1, Len(items))

\* The body of the for-in loop for one series: the value latestValues gets for
\* it, Undef when the key is not set.
LatestOf(values) ==
    LET validValues == IF IsArray(values) THEN FilterValid(values.items) ELSE <<>>
        lastValue == IF Len(validValues) > 0 THEN validValues[Len(validValues)] ELSE Null
    IN  IF lastValue # Null /\ lastValue # Undef THEN lastValue ELSE Undef

\* latestValues after the loop; for (param in undefined) runs no iteration.
LatestValues(hourly) ==
    IF hourly = Undef THEN [pm2_5 |-> Undef, pm10 |-> Undef]
    ELSE [pm2_5 |-> LatestOf(hourly.pm2_5), pm10 |-> LatestOf(hourly.pm10)]

NasaKeys == {"temperature", "humidity", "wind_speed", "pressure", "precipitation"}

NasaParamOf(key) ==
    CASE key = "temperature" -> "T2M"
      [] key = "humidity" -> "RH2M"
      [] key = "wind_speed" -> "WS10M"
      [] key = "pressure" -> "PS"
      [] key = "precipitation" -> "PRECTOTCORR"

\* nasaParams.X ? Object.values(nasaParams.X).pop() : null, with
\* nasaParams = nasaRes.data?.properties?.parameter || {}
NasaLatest(parameter) ==
    [key \in NasaKeys |->
        IF parameter = Undef \/ parameter[NasaParamOf(key)] = Undef THEN Null
        ELSE LET values == parameter[NasaParamOf(key)].items
             IN  IF Len(values) = 0 THEN Undef ELSE values[Len(values)]]

\* { ...latestValues, ...nasaLatest }
CombinedData(latestValues, nasaLatest) ==
    [key \in {k \in DOMAIN latestValues : latestValues[k] # Undef} \cup NasaKeys |->
        IF key \in NasaKeys THEN nasaLatest[key] ELSE latestValues[key]]

\* The trend object handed to setPmTrend; hourly is an object here.
PmTrendOf(hourly) ==
    LET pm2_5 == SliceLast(FilterValid(IF hourly.pm2_5 = Undef THEN <<>>
                                       ELSE hourly.pm2_5.items), TrendWindow)
        pm10 == SliceLast(FilterValid(IF hourly.pm10 = Undef THEN <<>>
                                      ELSE hourly.pm10.items), TrendWindow)
    IN  [pm2_5 |-> pm2_5,
         pm10 |-> pm10,
         labels |-> [i \in 1..Len(pm2_5) |-> "Hour " \o Numeral(i)]]

(***************************************************************************)
(* The environment: the places the geocoder knows, the device's position,  *)
(* and the response bodies the two data services are taken to send.        *)
(***************************************************************************)
InitCity == "Islamabad"

InitCoords == [lat |-> 336844, lon |-> 730479]

\* What the search box can hold: the initial text, another city, nothing.
Cities == {InitCity, "Lahore", ""}

\* res.data[0] of the geocoder for a query, after parseFloat of lat and lon.
PlaceOf(q) ==
    IF q = "Lahore" THEN [lat |-> 315656, lon |-> 743142]
    ELSE [lat |-> 336938, lon |-> 730651]

\* pos.coords of the geolocation callback.
Positions == {[lat |-> 248607, lon |-> 670011]}

\* Bodies of the air-quality response, as res.data.hourly: a body without an
\* hourly object (Undef), and two bodies whose series give AQI 50 and 100.
SampleHourly ==
    { Undef,
      Hourly(Arr(<<Num(120)>>), Arr(<<Num(200)>>)),
      Hourly(Arr(<<Null, Num(354), NaN>>), Undef) }

\* Bodies of the NASA response, as nasaRes.data?.properties?.parameter.
NasaBody ==
    [T2M |-> Arr(<<Num(251), Num(248)>>), RH2M |-> Arr(<<Num(40), Num(-999)>>),
     WS10M |-> Undef, PS |-> Arr(<<>>), PRECTOTCORR |-> Arr(<<Num(0)>>)]

SampleNasa == {NasaBody}

AlertNotFound == "City not found!"
AlertFailed == "Failed to fetch air quality or NASA data."

\* An alert shown by a catch block or a miss, with the kind of the error caught:
\* "AxiosError" for a request that failed, "TypeError" for a property read of
\* undefined, "" when nothing was thrown.
Failure(alert, error) == [alert |-> alert, error |-> error]

(***************************************************************************)
(* The state machine.  A refresh cycle is one handleSearch call with the   *)
(* fetchAirQuality call it makes, or one fetchAirQuality call made by the  *)
(* mount effect; it is in inflight while it awaits a response.             *)
(***************************************************************************)
MaxSearches == 2

Cycle(id, pc, q, at, hourly) ==
    [id |-> id, pc |-> pc, q |-> q, at |-> at, hourly |-> hourly]

NoCycle == [id |-> 0, at |-> Null, hourly |-> Undef]

Searches == Len(SelectSeq(started, LAMBDA k : k = "search"))

Init ==
    /\ city = InitCity
    /\ coords = InitCoords
    /\ aqData = Null
    /\ aqi = Null
    /\ pmTrend = [pm2_5 |-> <<>>, pm10 |-> <<>>, labels |-> <<>>]
    /\ predictions = <<>>
    /\ loading = TRUE
    /\ geo = "unmounted"
    /\ inflight = {}
    /\ started = <<>>
    /\ shown = NoCycle
    /\ coordsFrom = 0
    /\ lastFailure = Failure("", "")
    /\ pureCall = [fn |-> "none"]

\* fetchAirQuality(lat, lon) up to its first await, as cycle c: setLoading(true)
\* and the air-quality request.
BeginFetch(c, at) ==
    /\ loading' = TRUE
    /\ inflight' = (inflight \ {c}) \cup {Cycle(c.id, "awaitAQ", c.q, at, Undef)}

\* The catch and finally blocks of fetchAirQuality, ending cycle c.
FailFetch(c) ==
    /\ lastFailure' = Failure(AlertFailed, "AxiosError")
    /\ loading' = FALSE
    /\ inflight' = inflight \ {c}

\* The mount effect: without navigator.geolocation it fetches at once for the
\* initial coordinates, with it it asks for the position.
Mount ==
    /\ geo = "unmounted"
    /\ \/ /\ geo' = "pending"
          /\ UNCHANGED <<loading, inflight, started>>
       \/ /\ geo' = "absent"
          /\ started' = Append(started, "mount")
          /\ BeginFetch(Cycle(Len(started) + 1, "new", "", Null, Undef), InitCoords)
    /\ UNCHANGED <<city, coords, aqData, aqi, pmTrend, predictions, shown,
                   coordsFrom, lastFailure, pureCall>>

\* The success callback of getCurrentPosition.
GeolocationSuccess ==
    /\ geo = "pending"
    /\ \E pos \in Positions :
          /\ coords' = pos
          /\ coordsFrom' = Len(started) + 1
          /\ BeginFetch(Cycle(Len(started) + 1, "new", "", Null, Undef), pos)
    /\ geo' = "settled"
    /\ started' = Append(started, "geolocation")
    /\ UNCHANGED <<city, aqData, aqi, pmTrend, predictions, shown, lastFailure, pureCall>>

\* The error callback: it fetches for the coords of the render that ran the
\* effect, the initial ones.
GeolocationError ==
    /\ geo = "pending"
    /\ geo' = "settled"
    /\ started' = Append(started, "mount")
    /\ BeginFetch(Cycle(Len(started) + 1, "new", "", Null, Undef), InitCoords)
    /\ UNCHANGED <<city, coords, aqData, aqi, pmTrend, predictions, shown,
                   coordsFrom, lastFailure, pureCall>>

\* onChange of the search box.
SetCity ==
    /\ geo # "unmounted"
    /\ \E c \in Cities \ {city} : city' = c
    /\ UNCHANGED <<coords, aqData, aqi, pmTrend, predictions, loading, geo, inflight,
                   started, shown, coordsFrom, lastFailure, pureCall>>

\* handleSearch up to its await: nothing for an empty box, else the geocoding
\* request.
SubmitSearch ==
    /\ geo # "unmounted"
    /\ Searches < MaxSearches
    /\ IF city = ""
       THEN UNCHANGED <<inflight, started>>
       ELSE /\ started' = Append(started, "search")
            /\ inflight' = inflight \cup
                   {Cycle(Len(started) + 1, "awaitGeo", city, Null, Undef)}
    /\ UNCHANGED <<city, coords, aqData, aqi, pmTrend, predictions, loading, geo,
                   shown, coordsFrom, lastFailure, pureCall>>

\* The geocoder answers with a place: setCoords, then fetchAirQuality (not
\* awaited) runs to its first await.
GeocodeFound ==
    \E c \in inflight :
        /\ c.pc = "awaitGeo"
        /\ coords' = PlaceOf(c.q)
        /\ coordsFrom' = c.id
        /\ BeginFetch(c, PlaceOf(c.q))
        /\ UNCHANGED <<city, aqData, aqi, pmTrend, predictions, geo, started, shown,
                       lastFailure, pureCall>>

\* The geocoder answers with no place, or the request fails and the error is
\* logged: fetchCoordsFromCity returns null either way.
GeocodeMiss ==
    \E c \in inflight :
        /\ c.pc = "awaitGeo"
        /\ \E error \in {"", "AxiosError"} : lastFailure' = Failure(AlertNotFound, error)
        /\ inflight' = inflight \ {c}
        /\ UNCHANGED <<city, coords, aqData, aqi, pmTrend, predictions, loading, geo,
                       started, shown, coordsFrom, pureCall>>

\* The air-quality request fails.
AirQualityRejected ==
    \E c \in inflight :
        /\ c.pc = "awaitAQ"
        /\ FailFetch(c)
        /\ UNCHANGED <<city, coords, aqData, aqi, pmTrend, predictions, geo, started,
                       shown, coordsFrom, pureCall>>

\* The air-quality response arrives with one of bodies: latestValues is
\* computed (it is a function of hourly, kept in the cycle) and the NASA request
\* is made.
AirQualityArrived(bodies) ==
    \E c \in inflight :
        /\ c.pc = "awaitAQ"
        /\ \E hourly \in bodies :
              inflight' = (inflight \ {c}) \cup
                              {Cycle(c.id, "awaitNASA", c.q, c.at, hourly)}
        /\ UNCHANGED <<city, coords, aqData, aqi, pmTrend, predictions, loading, geo,
                       started, shown, coordsFrom, lastFailure, pureCall>>

\* NasaRejected keeping the air-quality half of the data.
NasaRejected_writes ==
    \E c \in inflight :
        /\ c.pc = "awaitNASA"
        /\ FailFetch(c)
        /\ aqData' = CombinedData(LatestValues(c.hourly), NasaLatest(Undef))
        /\ UNCHANGED <<city, coords, aqi, pmTrend, predictions, geo, started,
                       shown, coordsFrom, pureCall>>

\* The NASA request fails.
NasaRejected ==
    \E c \in inflight :
        /\ c.pc = "awaitNASA"
        /\ FailFetch(c)
        /\ UNCHANGED <<city, coords, aqData, aqi, pmTrend, predictions, geo, started,
                       shown, coordsFrom, pureCall>>

\* The rest of the try block of cycle c once the NASA response has arrived.
\* setAqData and setAqi run; then hourly.pm2_5 throws when the air-quality body
\* had no hourly object, and the catch and finally blocks run; otherwise
\* setPmTrend and generatePredictions run, then the finally block.
FinishFetch(c, parameter) ==
    \E latestValues \in {LatestValues(c.hourly)} :
    \E currentAQI \in {getAQIFromPM(latestValues.pm2_5, latestValues.pm10)} :
        /\ aqData' = CombinedData(latestValues, NasaLatest(parameter))
        /\ aqi' = currentAQI
        /\ IF c.hourly = Undef
           THEN /\ lastFailure' = Failure(AlertFailed, "TypeError")
                /\ UNCHANGED <<pmTrend, predictions, shown>>
           ELSE /\ pmTrend' = PmTrendOf(c.hourly)
                /\ predictions' = generatePredictions(currentAQI)
                /\ shown' = [id |-> c.id, at |-> c.at, hourly |-> c.hourly]
                /\ UNCHANGED lastFailure
        /\ loading' = FALSE
        /\ inflight' = inflight \ {c}
        /\ UNCHANGED <<city, coords, geo, started, coordsFrom, pureCall>>

\* NasaArrived dropping the response of a cycle whose coordinates are no longer
\* the current ones.
NasaArrived_current(bodies) ==
    \E c \in {d \in inflight : d.pc = "awaitNASA" /\ d.at = coords}, parameter \in bodies :
        FinishFetch(c, parameter)

\* The NASA response arrives with one of bodies.
NasaArrived(bodies) ==
    \E c \in {d \in inflight : d.pc = "awaitNASA"}, parameter \in bodies :
        FinishFetch(c, parameter)

Next ==
    \/ Mount
    \/ GeolocationSuccess
    \/ GeolocationError
    \/ SetCity
    \/ SubmitSearch
    \/ GeocodeFound
    \/ GeocodeMiss
    \/ AirQualityRejected
    \/ AirQualityArrived(SampleHourly)
    \/ NasaRejected
    \/ NasaArrived(SampleNasa)

Spec == Init /\ [][Next]_vars

(***************************************************************************)
(* One refresh from page load over a wide range of air-quality bodies.     *)
(***************************************************************************)
MaxHist == 8
ProbeRadius == 1

Breakpoints == {pm25Breakpoints[k] : k \in 1..Len(pm25Breakpoints)}
                   \cup {pm10Breakpoints[k] : k \in 1..Len(pm10Breakpoints)}

\* Concentrations at and next to every segment end of either table.
ProbeConcs ==
    UNION {(bp.cLow - ProbeRadius)..(bp.cLow + ProbeRadius)
               \cup (bp.cHigh - ProbeRadius)..(bp.cHigh + ProbeRadius) : bp \in Breakpoints}

\* A latest reading: none (Undef), null, or a number.
ProbeInputs == {Undef, Null} \cup {Num(n) : n \in ProbeConcs}

\* A series whose only entry is x; no series for Undef.
Single(x) == IF x = Undef THEN Undef ELSE Arr(<<x>>)

LevelHourly == {Hourly(Single(x), Single(y)) : x, y \in ProbeInputs}

\* Histories of up to MaxHist entries, entry i being null, NaN or the number 10 i.
Histories ==
    UNION {[1..n -> {"null", "NaN", "num"}] : n \in 0..MaxHist}

HistoryOf(kinds) ==
    Arr([i \in 1..Len(kinds) |->
            CASE kinds[i] = "null" -> Null
              [] kinds[i] = "NaN" -> NaN
              [] OTHER -> Num(10 * i)])

\* The other series of a body whose one series ranges over Histories: MaxHist
\* numbers with a null and a NaN among them (LevelHourly has the bodies that
\* lack a series).
OtherSeries ==
    Arr([i \in 1..(MaxHist + 2) |->
            IF i = 2 THEN Null ELSE IF i = 5 THEN NaN ELSE Num(1000 + i)])

TrendHourly ==
    {Hourly(HistoryOf(kinds), OtherSeries) : kinds \in Histories}
        \cup {Hourly(OtherSeries, HistoryOf(kinds)) : kinds \in Histories}

WideHourly == LevelHourly \cup TrendHourly

NextRefresh ==
    \/ Mount
    \/ GeolocationSuccess
    \/ GeolocationError
    \/ AirQualityRejected
    \/ AirQualityArrived(WideHourly)
    \/ NasaRejected
    \/ NasaArrived(SampleNasa)

SpecRefresh == Init /\ [][NextRefresh]_vars

(***************************************************************************)
(* The pure functions, each called once on an input drawn at the start.    *)
(***************************************************************************)
NegConc == 20
MaxConc == 6100
MaxAqi == 520

Pending == [t |-> "pending"]

\* A string result.
Str(s) == [t |-> "string", s |-> s]

\* A concentration handed to calcAQI: absent, NaN, or any grid point from below
\* zero to beyond the last segment of the longer table.
ConcInputs == {Null, Undef, NaN} \cup {Num(n) : n \in (0 - NegConc)..MaxConc}

\* An index value handed to a classifier or to generatePredictions.
AqiInputs == {Null, Undef, NaN} \cup {Num(n) : n \in 0..MaxAqi}

PureCall(fn, table, x, y) ==
    [fn |-> fn, table |-> table, x |-> x, y |-> y, ret |-> Pending]

PureInputs ==
    {PureCall("calcAQI", table, c, Undef) : table \in {"pm2_5", "pm10"}, c \in ConcInputs}
        \cup {PureCall("getAQIFromPM", "", x, y) : x, y \in ProbeInputs}
        \cup {PureCall(fn, "", a, Undef) :
                  fn \in {"getQuality", "getAQIColor", "generatePredictions"},
                  a \in AqiInputs}
        \cup {PureCall("HealthAdvice", "", a, isLoading) :
                  a \in AqiInputs, isLoading \in {[t |-> "true"], [t |-> "false"]}}

TableOf(name) == IF name = "pm2_5" THEN pm25Breakpoints ELSE pm10Breakpoints

InitPure ==
    /\ city = InitCity
    /\ coords = InitCoords
    /\ aqData = Null
    /\ aqi = Null
    /\ pmTrend = [pm2_5 |-> <<>>, pm10 |-> <<>>, labels |-> <<>>]
    /\ predictions = <<>>
    /\ loading = TRUE
    /\ geo = "unmounted"
    /\ inflight = {}
    /\ started = <<>>
    /\ shown = NoCycle
    /\ coordsFrom = 0
    /\ lastFailure = Failure("", "")
    /\ pureCall \in PureInputs

Return(fn, value) ==
    /\ pureCall.fn = fn
    /\ pureCall.ret = Pending
    /\ pureCall' = [pureCall EXCEPT !.ret = value]

CallCalcAQI ==
    /\ Return("calcAQI", calcAQI(pureCall.x, TableOf(pureCall.table)))
    /\ UNCHANGED appVars

CallGetAQIFromPM ==
    /\ Return("getAQIFromPM", getAQIFromPM(pureCall.x, pureCall.y))
    /\ UNCHANGED appVars

CallGetQuality ==
    /\ Return("getQuality", getQuality(pureCall.x))
    /\ UNCHANGED appVars

CallGetAQIColor ==
    /\ Return("getAQIColor", Str(getAQIColor(pureCall.x)))
    /\ UNCHANGED appVars

\* The Health Advice block rendered for a loading flag and an aqi.
RenderHealthAdvice ==
    /\ Return("HealthAdvice", Str(HealthAdvice(pureCall.y.t = "true", pureCall.x)))
    /\ UNCHANGED appVars

\* generatePredictions returns nothing: it calls setPredictions.
CallGeneratePredictions ==
    /\ Return("generatePredictions", Undef)
    /\ predictions' = generatePredictions(pureCall.x)
    /\ UNCHANGED <<city, coords, aqData, aqi, pmTrend, loading, geo, inflight,
                   started, shown, coordsFrom, lastFailure>>

NextPure ==
    \/ CallCalcAQI
    \/ CallGetAQIFromPM
    \/ CallGetQuality
    \/ CallGetAQIColor
    \/ RenderHealthAdvice
    \/ CallGeneratePredictions

SpecPure == InitPure /\ [][NextPure]_vars

Returned(fn) == pureCall.fn = fn /\ pureCall.ret # Pending

(***************************************************************************)
(* Properties of the pure functions (under SpecPure).                      *)
(***************************************************************************)
Absent(x) == x \in {Null, Undef}

\* A sub-index with undefined counted as 0.
SubIndexOrZero(sub) == IF sub = Null THEN 0 ELSE sub.v

\* C1: getAQIFromPM(pm25, pm10) is the larger of the PM2.5 and the PM10
\* sub-index, an undefined sub-index counting as 0; with both inputs absent it
\* is 0, and with pm25 = 12 and pm10 absent it is 50.
C1_MaxOfSubIndices ==
    Returned("getAQIFromPM") =>
        LET z25 == SubIndexOrZero(calcAQI(pureCall.x, pm25Breakpoints))
            z10 == SubIndexOrZero(calcAQI(pureCall.y, pm10Breakpoints))
        IN  /\ IsNum(pureCall.ret)
            /\ pureCall.ret.v >= z25 /\ pureCall.ret.v >= z10
            /\ pureCall.ret.v \in {z25, z10}
            /\ (Absent(pureCall.x) /\ Absent(pureCall.y)) => pureCall.ret = Num(0)
            /\ (pureCall.x = Num(120) /\ Absent(pureCall.y)) => pureCall.ret = Num(50)

C1_Witness ==
    /\ Returned("getAQIFromPM")
    /\ pureCall.x = Num(120) /\ pureCall.y = Undef
    /\ pureCall.ret = Num(50)

\* The segments of a table that hold the number n.
SegmentsHolding(n, table) ==
    {k \in 1..Len(table) : table[k].cLow <= n /\ n <= table[k].cHigh}

\* v is the integer nearest to iLow + (iHigh - iLow) (n - cLow) / (cHigh - cLow),
\* the upper one of two equally near.
IsRounded(v, n, bp) ==
    LET scaled == 2 * (bp.iHigh - bp.iLow) * (n - bp.cLow) + (bp.cHigh - bp.cLow)
        width == 2 * (bp.cHigh - bp.cLow)
    IN  (v - bp.iLow) * width <= scaled /\ scaled < (v - bp.iLow + 1) * width

\* C2: calcAQI(c, table) is the rounded interpolation within the first segment of
\* the table that holds c, and null when c is absent or no segment holds c; at a
\* segment's cLow it is iLow, at its cHigh iHigh.
C2_Interpolation ==
    Returned("calcAQI") =>
        LET table == TableOf(pureCall.table)
            c == pureCall.x
            hits == IF IsNum(c) THEN SegmentsHolding(c.v, table) ELSE {}
        IN  IF hits = {}
            THEN pureCall.ret = Null
            ELSE LET k == CHOOSE h \in hits : \A g \in hits : h <= g
                 IN  /\ IsNum(pureCall.ret)
                     /\ IsRounded(pureCall.ret.v, c.v, table[k])
                     /\ c.v = table[k].cLow => pureCall.ret.v = table[k].iLow
                     /\ c.v = table[k].cHigh => pureCall.ret.v = table[k].iHigh

C2_Witness ==
    /\ Returned("calcAQI")
    /\ pureCall.table = "pm2_5" /\ pureCall.x = Num(354)
    /\ pureCall.ret = Num(100)

\* The six tiers: tier k holds the values from TierLow[k] to TierHigh[k], the
\* last one everything from 301.
TierLow == <<0, 51, 101, 151, 201, 301>>
TierHigh == <<50, 100, 150, 200, 300>>

TiersOf(n) == {k \in 1..6 : TierLow[k] <= n /\ (k = 6 \/ n <= TierHigh[k])}

Tier(n) == CHOOSE k \in TiersOf(n) : TRUE

TierLabel ==
    <<"Good", "Moderate", "Unhealthy (Sensitive)", "Unhealthy", "Very Unhealthy",
      "Hazardous">>

TierColor == <<"#00e400", "#ffff00", "#ff7e00", "#ff0000", "#8f3f97", "#7e0023">>

TierToken ==
    <<"bg-gradient-to-r from-blue-300 to-blue-100/30",
      "bg-gradient-to-r from-yellow-500 to-yellow-300/40",
      "bg-gradient-to-r from-orange-700 to-orange-500/50",
      "bg-gradient-to-r from-red-800 to-red-600/60",
      "bg-gradient-to-r from-purple-900 to-purple-700/60",
      "bg-gradient-to-r from-black to-gray-800/70">>

\* C4: every AQI value lies in exactly one of the six tiers; getQuality returns
\* that tier's label and colour and getAQIColor that tier's token.
C4_SixTiers ==
    /\ (Returned("getQuality") /\ IsNum(pureCall.x)) =>
           /\ Cardinality(TiersOf(pureCall.x.v)) = 1
           /\ pureCall.ret = [label |-> TierLabel[Tier(pureCall.x.v)],
                              color |-> TierColor[Tier(pureCall.x.v)]]
    /\ (Returned("getAQIColor") /\ IsNum(pureCall.x)) =>
           pureCall.ret = Str(TierToken[Tier(pureCall.x.v)])

C4_Witness ==
    /\ Returned("getQuality")
    /\ pureCall.x = Num(301)
    /\ pureCall.ret.label = "Hazardous"

\* C5 as stated: the advisory of a defined AQI value is that of its tier among
\* the six, a different sentence for each tier.
C5_SixAdvisoryTiers ==
    (Returned("HealthAdvice") /\ IsNum(pureCall.x) /\ pureCall.y.t = "false") =>
        \A b \in 0..MaxAqi :
            (Tier(b) = Tier(pureCall.x.v)) <=> (HealthAdvice(FALSE, Num(b)) = pureCall.ret.s)

\* The five advisory tiers: 1..50, 51..100, 101..150, 151..200, 201 and above.
AdviceTier(n) ==
    IF n <= 50 THEN 1 ELSE IF n <= 100 THEN 2 ELSE IF n <= 150 THEN 3
    ELSE IF n <= 200 THEN 4 ELSE 5

AdviceSentence ==
    <<"Air quality is good. Enjoy outdoor activities!",
      "Moderate air quality. Sensitive people should limit outdoor activity.",
      "Unhealthy for sensitive groups. Avoid outdoor exercise.",
      "Unhealthy air! Stay indoors with filtered air.",
      "Very unhealthy! Avoid going outside and use air purifiers.">>

\* C5 as amended: no advisory is rendered while loading or for an AQI of 0;
\* otherwise the advisory is the sentence of the value's tier among five, cut
\* at 50, 100, 150 and 200, so that 200 and 201 differ and every value above
\* 200 (300 and 301 alike) gets the same sentence.
C5_FiveAdvisoryTiers ==
    (Returned("HealthAdvice") /\ IsNum(pureCall.x)) =>
        IF pureCall.y.t = "true" \/ pureCall.x.v = 0
        THEN pureCall.ret = Str(NoAdvice)
        ELSE /\ pureCall.ret = Str(AdviceSentence[AdviceTier(pureCall.x.v)])
             /\ \A b \in 1..MaxAqi :
                    (AdviceTier(b) = AdviceTier(pureCall.x.v))
                        <=> (HealthAdvice(FALSE, Num(b)) = pureCall.ret.s)

C5_Witness ==
    /\ Returned("HealthAdvice")
    /\ pureCall.x = Num(301) /\ pureCall.y.t = "false"
    /\ pureCall.ret = Str(HealthAdvice(FALSE, Num(300)))
    /\ pureCall.ret # Str(NoAdvice)

Capped(n) == IF n <= 500 THEN n ELSE 500

\* C6: for a defined AQI value a, generatePredictions(a) stores the three entries
\* ("Day 1", min(a, 500)), ("Day 2", min(a + 10, 500)), ("Day 3", min(a + 20, 500));
\* the values do not decrease and none exceeds 500.
C6_Predictions ==
    (Returned("generatePredictions") /\ IsNum(pureCall.x)) =>
        /\ Len(predictions) = 3
        /\ predictions = << [day |-> "Day 1", aqi |-> Num(Capped(pureCall.x.v))],
                            [day |-> "Day 2", aqi |-> Num(Capped(pureCall.x.v + 10))],
                            [day |-> "Day 3", aqi |-> Num(Capped(pureCall.x.v + 20))] >>
        /\ \A i \in 1..3 : predictions[i].aqi.v <= 500
        /\ \A i \in 1..2 : predictions[i].aqi.v <= predictions[i + 1].aqi.v

C6_Witness ==
    /\ Returned("generatePredictions")
    /\ pureCall.x = Num(495)
    /\ predictions[1].aqi = Num(495)
    /\ predictions[2].aqi = Num(500)
    /\ predictions[3].aqi = Num(500)

(***************************************************************************)
(* Properties of one refresh (under SpecRefresh).  shown is the cycle that *)
(* last ran fetchAirQuality to its end, so shown.id # 0 says that a        *)
(* refresh succeeded, with the body shown.hourly.                          *)
(***************************************************************************)
\* No concentration the refresh read is both present and held by a segment of
\* its table.
NoValidInput(hourly) ==
    LET latest == LatestValues(hourly)
    IN  /\ IsNum(latest.pm2_5) => SegmentsHolding(latest.pm2_5.v, pm25Breakpoints) = {}
        /\ IsNum(latest.pm10) => SegmentsHolding(latest.pm10.v, pm10Breakpoints) = {}

\* C3 as stated: with no valid input concentration the aqi the refresh stores
\* is undefined, no number.
C3_UndefinedWithoutValidInput ==
    (shown.id # 0 /\ NoValidInput(shown.hourly)) => ~IsNum(aqi)

\* C3 as amended: with no valid input concentration both sub-indices are
\* undefined (null, not clamped) and the aqi the refresh stores is 0.
C3_ZeroWithoutValidInput ==
    (shown.id # 0 /\ NoValidInput(shown.hourly)) =>
        /\ calcAQI(LatestValues(shown.hourly).pm2_5, pm25Breakpoints) = Null
        /\ calcAQI(LatestValues(shown.hourly).pm10, pm10Breakpoints) = Null
        /\ aqi = Num(0)

C3_Witness ==
    /\ shown.id # 0
    /\ LatestValues(shown.hourly) = [pm2_5 |-> Num(5001), pm10 |-> Undef]
    /\ aqi = Num(0)

\* The positions of the entries of a series that are neither null nor NaN.
ValidAt(series) ==
    IF series = Undef THEN {}
    ELSE {i \in 1..Len(series.items) : series.items[i] # Null /\ IsNum(series.items[i])}

\* The k-th smallest member of a set of positions.
Nth(positions, k) == CHOOSE i \in positions : Cardinality({j \in positions : j <= i}) = k

\* trend is the last min(7, count) valid entries of series, in their order.
IsLastValid(trend, series) ==
    LET valid == ValidAt(series)
        count == Cardinality(valid)
    IN  /\ Len(trend) = (IF count <= 7 THEN count ELSE 7)
        /\ \A j \in 1..Len(trend) :
               trend[j] = series.items[Nth(valid, count - Len(trend) + j)]

HourLabel == <<"Hour 1", "Hour 2", "Hour 3", "Hour 4", "Hour 5", "Hour 6", "Hour 7">>

\* C7: after a successful refresh pmTrend.pm2_5 and pmTrend.pm10 are the last
\* min(7, count) valid entries of their series, in order, and pmTrend.labels is
\* "Hour 1".."Hour N" for N the length of pmTrend.pm2_5; none is longer than 7.
C7_TrendWindow ==
    shown.id # 0 =>
        /\ IsLastValid(pmTrend.pm2_5, shown.hourly.pm2_5)
        /\ IsLastValid(pmTrend.pm10, shown.hourly.pm10)
        /\ Len(pmTrend.labels) = Len(pmTrend.pm2_5)
        /\ \A i \in 1..Len(pmTrend.labels) : pmTrend.labels[i] = HourLabel[i]
        /\ Len(pmTrend.pm2_5) <= 7 /\ Len(pmTrend.pm10) <= 7 /\ Len(pmTrend.labels) <= 7

C7_Witness ==
    /\ shown.id # 0
    /\ Cardinality(ValidAt(shown.hourly.pm2_5)) > 7
    /\ Cardinality(ValidAt(shown.hourly.pm2_5)) < Len(shown.hourly.pm2_5.items)
    /\ Len(pmTrend.pm2_5) = 7
    /\ Len(pmTrend.pm10) < 7
    /\ Len(pmTrend.labels) = 7

(***************************************************************************)
(* Properties of overlapping refresh cycles (under Spec).                  *)
(***************************************************************************)
DataUnchanged ==
    /\ aqData' = aqData
    /\ aqi' = aqi
    /\ pmTrend' = pmTrend
    /\ predictions' = predictions

\* Cycle c is in flight before the step and over after it.
Ends(c) == c \in inflight /\ \A d \in inflight' : d.id # c.id

\* What a step may do to the cycles: a cycle awaits one response at a time; a new
\* one is the latest triggered and awaits the geocoder if a search started it,
\* the air-quality service otherwise; one that stays moves, if at all, from the
\* geocoder to the air-quality service or from there to the NASA service.
InSequence ==
    /\ \A d, e \in inflight' : d.id = e.id => d = e
    /\ \A d \in inflight' :
           IF \E c \in inflight : c.id = d.id
           THEN \A c \in inflight :
                    c.id = d.id =>
                        \/ d = c
                        \/ c.pc = "awaitGeo" /\ d.pc = "awaitAQ"
                        \/ c.pc = "awaitAQ" /\ d.pc = "awaitNASA"
           ELSE /\ Len(started') = Len(started) + 1
                /\ d.id = Len(started')
                /\ d.pc = (IF started'[d.id] = "search" THEN "awaitGeo" ELSE "awaitAQ")

\* What the end of a cycle leaves: a geocoding miss leaves coords, loading and
\* the data alone; a failed air-quality request ends the cycle with the data left
\* alone (no NASA request follows); a cycle awaiting the NASA response ends with
\* the refresh done or with a failure, and after a failed NASA request the data
\* is left alone.
AbortsCleanly ==
    \A c \in inflight :
        Ends(c) =>
            CASE c.pc = "awaitGeo" ->
                     /\ coords' = coords /\ coordsFrom' = coordsFrom
                     /\ loading' = loading
                     /\ DataUnchanged
                     /\ lastFailure'.alert = AlertNotFound
              [] c.pc = "awaitAQ" ->
                     /\ lastFailure' = Failure(AlertFailed, "AxiosError")
                     /\ DataUnchanged
              [] c.pc = "awaitNASA" ->
                     /\ shown'.id = c.id \/ lastFailure'.alert = AlertFailed
                     /\ (shown'.id # c.id /\ lastFailure'.error = "AxiosError")
                            => DataUnchanged

\* C8: the requests of a cycle are issued in sequence, each after the response
\* to the one before, and a failed step ends the cycle: a geocoding miss without
\* an air-quality request or a change of coords, a failed air-quality request
\* without a NASA request, a failed data request without a write of aqData, aqi,
\* pmTrend or predictions.
C8_SequentialAbort == [][InSequence /\ AbortsCleanly]_vars

C8_Witness ==
    /\ inflight = {}
    /\ Len(started) = 2 /\ started[2] = "search"
    /\ shown.id = 1
    /\ coordsFrom = 2
    /\ lastFailure = Failure(AlertFailed, "AxiosError")
    /\ aqi = getAQIFromPM(LatestValues(shown.hourly).pm2_5, LatestValues(shown.hourly).pm10)
    /\ pmTrend = PmTrendOf(shown.hourly)

C10_WrittenTogether ==
    \/ aqi = Null /\ predictions = <<>>
    \/ Len(predictions) = 3 /\ predictions[1].aqi = aqi

\* The fetchAirQuality calls that have started and not reached their finally
\* block: the cycles awaiting the air-quality or the NASA response.
Fetching == {c \in inflight : c.pc \in {"awaitAQ", "awaitNASA"}}

\* C11: loading is true whenever a refresh is in flight: if some fetchAirQuality
\* call has started and has not reached its finally block, loading is TRUE, also
\* when two refreshes overlap and one of them finishes before the other.
C11_LoadingWhileInFlight == Fetching # {} => loading = TRUE

=============================================================================
